---- MODULE Spec2Model ----
(***************************************************************************)
(* A model of package ordmap (ordmap.go): OrdMap[K, V], an insertion-      *)
(* ordered map made of a slice of entries (data) and a map from key to     *)
(* slice index (lookup), behind a sync.RWMutex unless built by NewUnsafe.  *)
(*                                                                         *)
(* K and V are instantiated to string, as in the README; the empty string  *)
(* is the zero value of both.  Slice positions are Go's, from 0; the       *)
(* element at Go position i of a sequence s is s[i + 1].                   *)
(***************************************************************************)
EXTENDS Integers, Sequences, FiniteSets, TLC

VARIABLES
    data,       \* om.data: the slice of entries, in order
    lookup,     \* om.lookup: key -> position, a function on the keys it holds
    unsafe,     \* om.unsafe: TRUE for a map built by NewUnsafe
    initialSize,\* the argument New / NewUnsafe was called with
    panicked,   \* TRUE once a call has panicked (index or slice bounds out of range)
    hist,       \* the entries passed to Set so far, in call order
    prev,       \* data and lookup as they were before the last call
    last,       \* the last call made and what it returned
    iter,       \* the traversal under way: its view, its idx, where it stands
    out,        \* what the traversal has passed to yield so far
    mu,         \* om.m, the sync.RWMutex: its writer, its readers, the callers blocked in Lock
    pc,         \* where each goroutine stands in the call it is making
    loc,        \* each goroutine's locals: entries, idx, ok, and the calls it has made
    spare,      \* the backing array of om.data past len(om.data), up to its capacity
    held,       \* the slice the caller holds from Entries(), and what it held on return
    twin        \* the same traversal on the NewUnsafe twin of the map: its `range` slice, idx, yields

vars == <<data, lookup, unsafe, initialSize, panicked, hist, prev, last, iter, out, mu, pc, loc,
          spare, held, twin>>

----------------------------------------------------------------------------
(* Bounds of the model *)

MaxInit == 1        \* New is called with initialSize in 0 .. MaxInit
MaxLen == 3         \* no call is made that could grow data beyond MaxLen entries
MaxBulk == 2        \* BulkSet is called with at most MaxBulk entries
MaxSets == 3        \* a logged run makes at most MaxSets calls of Set
MaxArgs == 3        \* the one BulkSet call on a fresh map has at most MaxArgs entries
NumWriters == 2     \* the goroutines that call Set concurrently
MaxCalls == 2       \* each of them makes at most MaxCalls calls
MaxOps == 4         \* the goroutines around a traversal make at most MaxOps calls in all
MaxShared == 4      \* where the backing array is followed, at most MaxShared calls are made

ZeroKey == ""
ZeroVal == ""
KeySet == {ZeroKey, "x", "y"}
ValSet == {"10", "20"}
ArgVals == {"10", "20", "30"}   \* the values of the one BulkSet call on a fresh map

----------------------------------------------------------------------------
(* Entry, ordmap.go:9-12 *)

Entry(k, v) == [Key |-> k, Value |-> v]

ZeroEntry == Entry(ZeroKey, ZeroVal)

EntrySet == {Entry(k, v) : k \in KeySet, v \in ValSet}

\* make(map[K]int): the map with no keys
EmptyLookup == [k \in {} |-> 0]

\* make([]Entry[K, V], n): a slice of LENGTH n, every element the zero Entry
MakeData(n) == [i \in 1..n |-> ZeroEntry]

\* the sequences over S of length at most n
RECURSIVE SeqsUpTo(_, _)
SeqsUpTo(S, n) ==
    IF n = 0 THEN {<<>>}
    ELSE LET shorter == SeqsUpTo(S, n - 1)
         IN  shorter \cup {Append(s, e) : s \in {t \in shorter : Len(t) = n - 1}, e \in S}

----------------------------------------------------------------------------
(* The methods as functions of the map's fields.  Each returns a record    *)
(* with the fields after the call (data, lookup), whether the call         *)
(* panicked, and what it returned.                                         *)

\* Get, ordmap.go:54-67
GetOp(d, l, key) ==
    IF key \notin DOMAIN l
    THEN [val |-> ZeroVal, ok |-> FALSE, panic |-> FALSE]
    ELSE IF l[key] >= Len(d)
         THEN [val |-> ZeroVal, ok |-> FALSE, panic |-> TRUE]   \* om.data[idx]: index out of range
         ELSE [val |-> d[l[key] + 1].Value, ok |-> TRUE, panic |-> FALSE]

\* Index, ordmap.go:70-78: idx is the int zero value when the key is absent
IndexOp(l, key) ==
    IF key \in DOMAIN l THEN [idx |-> l[key], ok |-> TRUE]
                        ELSE [idx |-> 0, ok |-> FALSE]

\* Has, ordmap.go:108-116
HasOp(l, key) == key \in DOMAIN l

\* Len, ordmap.go:146-153
LenOp(d) == Len(d)

\* Entries, ordmap.go:45-51
EntriesOp(d) == d

\* BulkSetBody with `om.data[idx] = entry` left out: an entry whose key is
\* already there is dropped, so that the first value set stays
BulkSetBody_KeepsFirst(d, l, entry) ==
    IF entry.Key \in DOMAIN l
    THEN [data |-> d, lookup |-> l, panic |-> FALSE, ret |-> TRUE]
    ELSE [data |-> Append(d, entry),
          lookup |-> [k \in DOMAIN l \cup {entry.Key} |->
                        IF k = entry.Key THEN Len(d) ELSE l[k]],
          panic |-> FALSE, ret |-> FALSE]

\* One pass of the loop body of BulkSet, ordmap.go:96-103; ret is TRUE when
\* the body executes `return`
BulkSetBody(d, l, entry) ==
    IF entry.Key \in DOMAIN l
    THEN LET idx == l[entry.Key]
         IN  IF idx >= Len(d)
             THEN [data |-> d, lookup |-> l, panic |-> TRUE, ret |-> TRUE]
             ELSE [data |-> [d EXCEPT ![idx + 1] = entry], lookup |-> l,
                   panic |-> FALSE, ret |-> TRUE]
    ELSE [data |-> Append(d, entry),
          lookup |-> [k \in DOMAIN l \cup {entry.Key} |->
                        IF k = entry.Key THEN Len(d) ELSE l[k]],
          panic |-> FALSE, ret |-> FALSE]

\* BulkSet with the `return` of its loop body taken on every pass: only the
\* first entry of the list is set
BulkSetOp_FirstOnly(d, l, entries) ==
    IF entries = <<>>
    THEN [data |-> d, lookup |-> l, panic |-> FALSE]
    ELSE LET r == BulkSetBody(d, l, Head(entries))
         IN  [data |-> r.data, lookup |-> r.lookup, panic |-> r.panic]

\* BulkSet, ordmap.go:89-105: the loop over entries, left at the first `return`
RECURSIVE BulkSetOp(_, _, _)
BulkSetOp(d, l, entries) ==
    IF entries = <<>>
    THEN [data |-> d, lookup |-> l, panic |-> FALSE]
    ELSE LET r == BulkSetBody(d, l, Head(entries))
         IN  IF r.ret
             THEN [data |-> r.data, lookup |-> r.lookup, panic |-> r.panic]
             ELSE BulkSetOp(r.data, r.lookup, Tail(entries))

\* Set, ordmap.go:82-84
SetOp(d, l, key, val) == BulkSetOp(d, l, <<Entry(key, val)>>)

\* delete(om.lookup, key), deferred at ordmap.go:130
DeleteKey(l, key) == [k \in DOMAIN l \ {key} |-> l[k]]

\* Delete without `if !ok { return }`: for an absent key idx is the int zero
\* value, and the entry at position 0 is cut off
DeleteOp_NoAbsentCheck(d, l, key) ==
    LET idx == IF key \in DOMAIN l THEN l[key] ELSE 0
        n == Len(d)
    IN  IF idx = 0
        THEN IF n = 0
             THEN [data |-> d, lookup |-> DeleteKey(l, key), panic |-> TRUE]
             ELSE [data |-> SubSeq(d, 2, n), lookup |-> DeleteKey(l, key), panic |-> FALSE]
        ELSE IF idx = n
        THEN [data |-> SubSeq(d, 1, n - 1), lookup |-> DeleteKey(l, key), panic |-> FALSE]
        ELSE IF idx + 1 > n
        THEN [data |-> d, lookup |-> DeleteKey(l, key), panic |-> TRUE]
        ELSE [data |-> SubSeq(d, 1, idx) \o SubSeq(d, idx + 2, n),
              lookup |-> DeleteKey(l, key), panic |-> FALSE]

\* Delete, ordmap.go:119-143.  The deferred delete(om.lookup, key) runs on
\* every way out once registered, a panic included.
DeleteOp(d, l, key) ==
    IF key \notin DOMAIN l
    THEN [data |-> d, lookup |-> l, panic |-> FALSE]
    ELSE LET idx == l[key]
             n == Len(d)
         IN  IF idx = 0
             THEN IF n = 0
                  THEN [data |-> d, lookup |-> DeleteKey(l, key), panic |-> TRUE]  \* om.data[1:]
                  ELSE [data |-> SubSeq(d, 2, n), lookup |-> DeleteKey(l, key), panic |-> FALSE]
             ELSE IF idx = n
             THEN [data |-> SubSeq(d, 1, n - 1), lookup |-> DeleteKey(l, key), panic |-> FALSE]
             ELSE IF idx + 1 > n
             THEN [data |-> d, lookup |-> DeleteKey(l, key), panic |-> TRUE]  \* om.data[idx+1:]
             ELSE [data |-> SubSeq(d, 1, idx) \o SubSeq(d, idx + 2, n),
                   lookup |-> DeleteKey(l, key), panic |-> FALSE]

----------------------------------------------------------------------------
(* The traversal views: Values, Keys, All, EntryIter (ordmap.go:158-277).  *)
(* A traversal is a loop that hands one element at a time to the consumer  *)
(* (yield) and stops when the data is exhausted or the consumer returns    *)
(* false.                                                                  *)

Views == {"Values", "Keys", "All", "EntryIter"}

\* what each view passes to yield for the entry at Go position idx
Item(view, idx, entry) ==
    CASE view = "Values"    -> [Value |-> entry.Value]                      \* ordmap.go:162, 178
      [] view = "Keys"      -> [Key |-> entry.Key]                          \* ordmap.go:193, 209
      [] view = "All"       -> [Index |-> idx, Value |-> entry.Value]       \* ordmap.go:224, 240
      [] view = "EntryIter" -> [Key |-> entry.Key, Value |-> entry.Value]   \* ordmap.go:255, 271

\* no traversal under way
Idle == [view |-> "none", idx |-> 0, n |-> 0, state |-> "idle"]

\* The loop's bound: `range om.data` evaluates the slice once, so an unsafe
\* map's traversal runs to the length it started with; a guarded map's
\* traversal compares idx with len(om.data) at every step.
Limit(it, d, isUnsafe) == IF isUnsafe THEN it.n ELSE Len(d)

----------------------------------------------------------------------------
(* Slices that share om.data's backing array.  Entries() returns om.data   *)
(* itself (ordmap.go:50) and `range om.data` (ordmap.go:161) evaluates     *)
(* om.data once: both leave the caller with a slice header of its own on   *)
(* the array the map goes on writing.  Such a slice is kept as: pre, its   *)
(* elements that lie before om.data's present start (nothing writes them   *)
(* any more), and n, the number of its elements that follow, which are     *)
(* the first n elements of the present backing array data \o spare.  A     *)
(* slice left behind on an old array by a growing append has n = 0.        *)

NoSlice == [pre |-> <<>>, n |-> 0, shot |-> <<>>, some |-> FALSE]

\* the slice header of om.data, copied now; shot is what it shows now
SliceOf(d) == [pre |-> <<>>, n |-> Len(d), shot |-> d, some |-> TRUE]

\* what slice h shows, the map's array being d \o sp
Content(h, d, sp) == h.pre \o SubSeq(d \o sp, 1, h.n)

\* h after `om.data = om.data[1:]` (ordmap.go:133): its first shared element
\* now lies before om.data's start
AfterCutFirst(h, d, sp) ==
    IF h.n > 0 THEN [h EXCEPT !.pre = Append(h.pre, (d \o sp)[1]), !.n = h.n - 1] ELSE h

\* h after an append that moved om.data to a new array: h stays on the old one
AfterMove(h, d, sp) == [h EXCEPT !.pre = Content(h, d, sp), !.n = 0]

\* The capacity append gives the new array when len(om.data) = cap(om.data) = n.
\* The language leaves it to the implementation; the model lets a call grow
\* either to the exact fit or to the double.
Policies == {"exact", "double"}

NewCap(n, pol) == IF pol = "exact" \/ n = 0 THEN n + 1 ELSE 2 * n

\* spare after a call that took the fields from (d, l) to r, under policy pol:
\* an overwrite leaves it; an append fills its first element or moves to a
\* new array of zero elements; a Delete that reslices from the front leaves
\* it; any other Delete leaves the old last element behind the new end.
RECURSIVE SpareAfterSets(_, _, _, _, _)
SpareAfterSets(d, l, sp, entries, pol) ==
    IF entries = <<>> THEN sp
    ELSE LET r == BulkSetBody(d, l, Head(entries))
             sp1 == IF r.ret THEN sp
                    ELSE IF sp # <<>> THEN Tail(sp)
                    ELSE MakeData(NewCap(Len(d), pol) - Len(d) - 1)
         IN  IF r.ret THEN sp1 ELSE SpareAfterSets(r.data, r.lookup, sp1, Tail(entries), pol)

\* slice h after the same calls: it stays behind at the first append that
\* finds no spare capacity
RECURSIVE SliceAfterSets(_, _, _, _, _)
SliceAfterSets(h, d, l, sp, entries) ==
    IF entries = <<>> THEN h
    ELSE LET r == BulkSetBody(d, l, Head(entries))
         IN  IF r.ret THEN h
             ELSE IF sp = <<>> THEN AfterMove(h, d, sp)
             ELSE SliceAfterSets(h, r.data, r.lookup, Tail(sp), Tail(entries))

\* spare and slice h after Delete(key), ordmap.go:125-142
SpareAfterDelete(d, l, sp, key) ==
    IF key \notin DOMAIN l \/ DeleteOp(d, l, key).panic \/ l[key] = 0 THEN sp
    ELSE <<d[Len(d)]>> \o sp

SliceAfterDelete(h, d, l, sp, key) ==
    IF key \in DOMAIN l /\ ~DeleteOp(d, l, key).panic /\ l[key] = 0
    THEN AfterCutFirst(h, d, sp)
    ELSE h

\* the NewUnsafe twin is not traversing
NoTwin == [h |-> NoSlice, idx |-> 0, state |-> "idle", out |-> <<>>]

----------------------------------------------------------------------------
(* The goroutines of concurrent use, and om.m (ordmap.go:19) *)

Writers == 1..NumWriters

\* the value goroutine t sets (idx*j in Test_ConcurrentAccess): its own
ValOf(t) == ToString(t)

\* sync.RWMutex: w is the goroutine holding the write lock (0: none), r the
\* goroutines holding the read lock, pending the goroutines blocked in Lock()
Unlocked == [w |-> 0, r |-> {}, pending |-> {}]

NoLocals == [entries |-> <<>>, idx |-> 0, ok |-> FALSE, calls |-> 0]

----------------------------------------------------------------------------
(* Sequential use of one map *)

NoCall == [op |-> "New", key |-> ZeroKey, list |-> <<>>, ok |-> FALSE,
           val |-> ZeroVal, n |-> 0]

\* New / NewUnsafe, ordmap.go:28-42
New(size, isUnsafe) ==
    /\ data = MakeData(size)
    /\ lookup = EmptyLookup
    /\ unsafe = isUnsafe
    /\ initialSize = size
    /\ panicked = FALSE
    /\ hist = <<>>
    /\ prev = [data |-> MakeData(size), lookup |-> EmptyLookup]
    /\ last = NoCall
    /\ iter = Idle
    /\ out = <<>>
    /\ mu = Unlocked
    /\ pc = [t \in Writers |-> "idle"]
    /\ loc = [t \in Writers |-> NoLocals]
    /\ spare = <<>>
    /\ held = NoSlice
    /\ twin = NoTwin

Init == \E size \in 0..MaxInit, isUnsafe \in BOOLEAN : New(size, isUnsafe)

\* a panic ends the program; a consumer makes no other call while it traverses
Running == ~panicked /\ iter.state # "running"

Room(n) == Len(data) + n <= MaxLen

\* a call that may write the fields
Write(r, call) ==
    /\ data' = r.data
    /\ lookup' = r.lookup
    /\ panicked' = r.panic
    /\ prev' = [data |-> data, lookup |-> lookup]
    /\ last' = call
    /\ iter' = Idle
    /\ out' = <<>>
    /\ UNCHANGED <<unsafe, initialSize, mu, pc, loc, spare, held, twin>>

\* a call that only reads them
Read(panic, call) ==
    /\ panicked' = panic
    /\ prev' = [data |-> data, lookup |-> lookup]
    /\ last' = call
    /\ iter' = Idle
    /\ out' = <<>>
    /\ UNCHANGED <<data, lookup, unsafe, initialSize, hist, mu, pc, loc, spare, held, twin>>

SetCall(key, val, logged) ==
    /\ Running
    /\ Write(SetOp(data, lookup, key, val),
             [NoCall EXCEPT !.op = "Set", !.key = key, !.val = val,
                            !.list = <<Entry(key, val)>>])
    /\ hist' = IF logged THEN Append(hist, Entry(key, val)) ELSE hist

BulkSetCall(entries) ==
    /\ Running
    /\ Write(BulkSetOp(data, lookup, entries),
             [NoCall EXCEPT !.op = "BulkSet", !.list = entries])
    /\ UNCHANGED hist

Set ==
    \E key \in KeySet, val \in ValSet :
        /\ key \in DOMAIN lookup \/ Room(1)
        /\ SetCall(key, val, FALSE)

BulkSet == \E entries \in SeqsUpTo(EntrySet, MaxBulk) : Room(Len(entries)) /\ BulkSetCall(entries)

Delete ==
    \E key \in KeySet :
        /\ Running
        /\ Write(DeleteOp(data, lookup, key), [NoCall EXCEPT !.op = "Delete", !.key = key])
        /\ UNCHANGED hist

Get ==
    \E key \in KeySet :
        /\ Running
        /\ LET r == GetOp(data, lookup, key)
           IN  Read(r.panic, [NoCall EXCEPT !.op = "Get", !.key = key,
                                            !.ok = r.ok, !.val = r.val])

Index ==
    \E key \in KeySet :
        /\ Running
        /\ LET r == IndexOp(lookup, key)
           IN  Read(FALSE, [NoCall EXCEPT !.op = "Index", !.key = key,
                                          !.ok = r.ok, !.n = r.idx])

Has ==
    \E key \in KeySet :
        /\ Running
        /\ Read(FALSE, [NoCall EXCEPT !.op = "Has", !.key = key, !.ok = HasOp(lookup, key)])

LenCall ==
    /\ Running
    /\ Read(FALSE, [NoCall EXCEPT !.op = "Len", !.n = LenOp(data)])

\* Entries, ordmap.go:45-51
EntriesCall ==
    /\ Running
    /\ Read(FALSE, [NoCall EXCEPT !.op = "Entries", !.list = EntriesOp(data)])

\* the consumer starts `for ... := range om.<view>()`
Traverse(view) ==
    /\ Running
    /\ iter' = [view |-> view, idx |-> 0, n |-> IF unsafe THEN Len(data) ELSE 0,
                state |-> "running"]
    /\ out' = <<>>
    /\ prev' = [data |-> data, lookup |-> lookup]
    /\ last' = [NoCall EXCEPT !.op = view]
    /\ UNCHANGED <<data, lookup, unsafe, initialSize, panicked, hist, mu, pc, loc, spare, held, twin>>

Values == Traverse("Values")

Keys == Traverse("Keys")

All == Traverse("All")

EntryIter == Traverse("EntryIter")

\* One turn of the traversal's loop: the end test, then the yield of the
\* entry at idx, whose result (more) is the consumer's to choose.  A guarded
\* map makes the test and the read under RLock, which a single goroutine
\* always gets; no call is made between two turns (Running), so data is the
\* slice the traversal started on.
TraverseStep ==
    /\ ~panicked
    /\ iter.state = "running"
    /\ IF iter.idx >= Limit(iter, data, unsafe)
       THEN /\ iter' = [iter EXCEPT !.state = "exhausted"]
            /\ out' = out
       ELSE \E more \in BOOLEAN :
            /\ out' = Append(out, Item(iter.view, iter.idx, data[iter.idx + 1]))
            /\ iter' = IF more THEN [iter EXCEPT !.idx = iter.idx + 1]
                               ELSE [iter EXCEPT !.state = "stopped"]
    /\ UNCHANGED <<data, lookup, unsafe, initialSize, panicked, hist, prev, last, mu, pc, loc, spare, held, twin>>

Next == Set \/ BulkSet \/ Delete \/ Get \/ Index \/ Has \/ LenCall

Spec == Init /\ [][Next]_vars

----------------------------------------------------------------------------
(* A fresh map, a logged run of Set calls, then reads and traversals *)

SetLogged ==
    \E key \in KeySet, val \in ValSet : Len(hist) < MaxSets /\ SetCall(key, val, TRUE)

NextSets ==
    \/ SetLogged
    \/ Get \/ Index \/ Has \/ LenCall \/ EntriesCall
    \/ Values \/ Keys \/ All \/ EntryIter
    \/ TraverseStep

SpecSets == Init /\ [][NextSets]_vars

----------------------------------------------------------------------------
(* A fresh map and one BulkSet call on it *)

BulkSetOnce ==
    \E entries \in SeqsUpTo({Entry(k, v) : k \in KeySet, v \in ArgVals}, MaxArgs) :
        /\ last.op = "New"
        /\ BulkSetCall(entries)

NextBulk == BulkSetOnce

SpecBulk == Init /\ [][NextBulk]_vars

----------------------------------------------------------------------------
(* Concurrent writers on a guarded map: every goroutine calls Set, and     *)
(* the steps of the calls interleave (Test_ConcurrentAccess).              *)

InitConc == \E size \in 0..MaxInit : New(size, FALSE)

ConcFrame == UNCHANGED <<unsafe, initialSize, prev, last, iter, out, spare, held, twin>>

\* goroutine t calls om.Set(key, ValOf(t)), ordmap.go:82-84, entering BulkSet
CallSet(t) ==
    \E key \in KeySet :
        /\ ~panicked
        /\ pc[t] = "idle"
        /\ loc[t].calls < MaxCalls
        /\ loc' = [loc EXCEPT ![t] = [entries |-> <<Entry(key, ValOf(t))>>, idx |-> 0,
                                       ok |-> FALSE, calls |-> loc[t].calls + 1]]
        /\ hist' = Append(hist, Entry(key, ValOf(t)))
        /\ pc' = [pc EXCEPT ![t] = IF unsafe THEN "loop" ELSE "Lock"]   \* ordmap.go:90
        /\ UNCHANGED <<data, lookup, panicked, mu>>
        /\ ConcFrame

\* om.m.Lock(), ordmap.go:91: the caller announces itself ...
LockBegin(t) ==
    /\ ~panicked
    /\ pc[t] = "Lock"
    /\ mu' = [mu EXCEPT !.pending = mu.pending \cup {t}]
    /\ pc' = [pc EXCEPT ![t] = "locking"]
    /\ UNCHANGED <<data, lookup, panicked, hist, loc>>
    /\ ConcFrame

\* ... and goes on once no goroutine holds the lock, for reading or writing
LockAcquire(t) ==
    /\ ~panicked
    /\ pc[t] = "locking"
    /\ mu.w = 0 /\ mu.r = {}
    /\ mu' = [mu EXCEPT !.w = t, !.pending = mu.pending \ {t}]
    /\ pc' = [pc EXCEPT ![t] = "loop"]
    /\ UNCHANGED <<data, lookup, panicked, hist, loc>>
    /\ ConcFrame

\* `for _, entry := range entries` and `idx, ok := om.lookup[entry.Key]`,
\* ordmap.go:95-96
LoopLookup(t) ==
    /\ ~panicked
    /\ pc[t] = "loop"
    /\ IF loc[t].entries = <<>>
       THEN /\ pc' = [pc EXCEPT ![t] = "Unlock"]
            /\ loc' = loc
       ELSE LET key == Head(loc[t].entries).Key
            IN  /\ loc' = [loc EXCEPT ![t].ok = key \in DOMAIN lookup,
                                       ![t].idx = IF key \in DOMAIN lookup THEN lookup[key] ELSE 0]
                /\ pc' = [pc EXCEPT ![t] = "store"]
    /\ UNCHANGED <<data, lookup, panicked, hist, mu>>
    /\ ConcFrame

\* `if ok { om.data[idx] = entry; return }`, else
\* `om.lookup[entry.Key] = len(om.data)`, ordmap.go:97-102
Store(t) ==
    /\ ~panicked
    /\ pc[t] = "store"
    /\ LET entry == Head(loc[t].entries)
       IN  IF loc[t].ok
           THEN /\ IF loc[t].idx >= Len(data)
                   THEN panicked' = TRUE /\ data' = data
                   ELSE panicked' = FALSE /\ data' = [data EXCEPT ![loc[t].idx + 1] = entry]
                /\ lookup' = lookup
                /\ pc' = [pc EXCEPT ![t] = "Unlock"]
           ELSE /\ lookup' = [k \in DOMAIN lookup \cup {entry.Key} |->
                                 IF k = entry.Key THEN Len(data) ELSE lookup[k]]
                /\ pc' = [pc EXCEPT ![t] = "append"]
                /\ UNCHANGED <<data, panicked>>
    /\ UNCHANGED <<hist, mu, loc>>
    /\ ConcFrame

\* `om.data = append(om.data, entry)`, ordmap.go:103, and on to the next entry
AppendEntry(t) ==
    /\ ~panicked
    /\ pc[t] = "append"
    /\ data' = Append(data, Head(loc[t].entries))
    /\ loc' = [loc EXCEPT ![t].entries = Tail(loc[t].entries)]
    /\ pc' = [pc EXCEPT ![t] = "loop"]
    /\ UNCHANGED <<lookup, panicked, hist, mu>>
    /\ ConcFrame

\* the deferred om.m.Unlock(), ordmap.go:92, and the return to the caller
Unlock(t) ==
    /\ ~panicked
    /\ pc[t] = "Unlock"
    /\ mu' = IF unsafe THEN mu ELSE [mu EXCEPT !.w = 0]
    /\ pc' = [pc EXCEPT ![t] = "idle"]
    /\ UNCHANGED <<data, lookup, panicked, hist, loc>>
    /\ ConcFrame

NextConc ==
    \E t \in Writers :
        \/ CallSet(t)
        \/ LockBegin(t)
        \/ LockAcquire(t)
        \/ LoopLookup(t)
        \/ Store(t)
        \/ AppendEntry(t)
        \/ Unlock(t)

SpecConc == InitConc /\ [][NextConc]_vars

----------------------------------------------------------------------------
(* A guarded map used by two goroutines at once.  Goroutine 1              *)
(* runs a traversal: pc[1] = "idle" with iter.state = "running" is the     *)
(* consumer's code inside yield, from where it may call the map again.     *)
(* The goroutines call Set, Delete and the reading methods.  Under         *)
(* the write lock no other goroutine reads or writes the fields, so the    *)
(* bodies of BulkSet and of Delete are one step each.                      *)

Traverser == 1

\* the goroutine that calls the map while goroutine 1 traverses it
Other == 2

Callers == {Traverser, Other}

\* the keys the goroutines set and delete
HotKeys == KeySet \ {ZeroKey}

RECURSIVE CallsOf(_)
CallsOf(n) == IF n = 0 THEN 0 ELSE loc[n].calls + CallsOf(n - 1)

\* goroutine t is in caller code and one more call may be made; goroutine 1
\* makes its calls from the consumer of its traversal
MayCall(t) ==
    /\ ~panicked
    /\ pc[t] = "idle"
    /\ t = Traverser => iter.state = "running"
    /\ CallsOf(NumWriters) < MaxOps

Enter(t, at) ==
    /\ pc' = [pc EXCEPT ![t] = at]
    /\ loc' = [loc EXCEPT ![t].calls = @ + 1]

\* om.m.Lock(): the caller announces itself ...
LockAt(t, at, next) ==
    /\ ~panicked
    /\ pc[t] = at
    /\ mu' = [mu EXCEPT !.pending = mu.pending \cup {t}]
    /\ pc' = [pc EXCEPT ![t] = next]
    /\ UNCHANGED <<data, lookup, panicked, hist, loc>>
    /\ ConcFrame

\* ... and goes on once no goroutine holds the lock, for reading or writing
LockedAt(t, at, next) ==
    /\ ~panicked
    /\ pc[t] = at
    /\ mu.w = 0 /\ mu.r = {}
    /\ mu' = [mu EXCEPT !.w = t, !.pending = mu.pending \ {t}]
    /\ pc' = [pc EXCEPT ![t] = next]
    /\ UNCHANGED <<data, lookup, panicked, hist, loc>>
    /\ ConcFrame

\* om.Set(key, ValOf(t)), ordmap.go:82-84, which is BulkSet with one entry
StartSet(t) ==
    \E key \in HotKeys :
        /\ MayCall(t)
        /\ pc' = [pc EXCEPT ![t] = "Set.Lock"]
        /\ loc' = [loc EXCEPT ![t] = [entries |-> <<Entry(key, ValOf(t))>>,
                                       idx |-> 0, ok |-> FALSE, calls |-> loc[t].calls + 1]]
        /\ UNCHANGED <<data, lookup, panicked, hist, mu>>
        /\ ConcFrame

\* om.m.Lock(), ordmap.go:91
SetLock(t) == LockAt(t, "Set.Lock", "Set.locking")

SetLocked(t) == LockedAt(t, "Set.locking", "Set.body")

\* the loop of BulkSet, ordmap.go:95-104, up to the deferred Unlock
SetBody(t) ==
    LET r == BulkSetOp(data, lookup, loc[t].entries)
    IN  /\ ~panicked
        /\ pc[t] = "Set.body"
        /\ data' = r.data
        /\ lookup' = r.lookup
        /\ panicked' = r.panic
        /\ pc' = [pc EXCEPT ![t] = "Unlock"]
        /\ loc' = [loc EXCEPT ![t].entries = <<>>]
        /\ UNCHANGED <<hist, mu>>
        /\ ConcFrame

\* om.Delete(key), ordmap.go:119-120
StartDelete(t) ==
    /\ MayCall(t)
    /\ Enter(t, "Delete.Lock")
    /\ UNCHANGED <<data, lookup, panicked, hist, mu>>
    /\ ConcFrame

\* om.m.Lock(), ordmap.go:121
DeleteLock(t) == LockAt(t, "Delete.Lock", "Delete.locking")

DeleteLocked(t) == LockedAt(t, "Delete.locking", "Delete.body")

\* ordmap.go:125-142, up to the deferred Unlock
DeleteBody(t) ==
    \E key \in HotKeys :
        LET r == DeleteOp(data, lookup, key)
        IN  /\ ~panicked
            /\ pc[t] = "Delete.body"
            /\ data' = r.data
            /\ lookup' = r.lookup
            /\ panicked' = r.panic
            /\ pc' = [pc EXCEPT ![t] = "Unlock"]
            /\ UNCHANGED <<hist, mu, loc>>
            /\ ConcFrame

\* Get, Index, Has, Len or Entries is called, ordmap.go:45-153
StartRead(t) ==
    /\ MayCall(t)
    /\ Enter(t, "RLock")
    /\ UNCHANGED <<data, lookup, panicked, hist, mu>>
    /\ ConcFrame

\* om.m.RLock() returns once no writer holds the lock or waits for it
RLockAt(t, at, next) ==
    /\ ~panicked
    /\ pc[t] = at
    /\ mu.w = 0 /\ mu.pending = {}
    /\ mu' = [mu EXCEPT !.r = mu.r \cup {t}]
    /\ pc' = [pc EXCEPT ![t] = next]
    /\ UNCHANGED <<data, lookup, panicked, hist, loc, out, iter>>

\* om.m.RUnlock()
RUnlockAt(t, at, next) ==
    /\ ~panicked
    /\ pc[t] = at
    /\ mu' = [mu EXCEPT !.r = mu.r \ {t}]
    /\ pc' = [pc EXCEPT ![t] = next]
    /\ UNCHANGED <<data, lookup, panicked, hist, loc, out>>

\* the frame of a step of the reading methods
ReadFrame == UNCHANGED <<unsafe, initialSize, prev, last, spare, held, twin>>

RLock(t) == RLockAt(t, "RLock", "read") /\ ReadFrame

\* the body of the reading method; only Get indexes om.data (ordmap.go:66)
ReadBody(t) ==
    \E op \in {"Get", "Index", "Has", "Len", "Entries"}, key \in KeySet :
        /\ ~panicked
        /\ pc[t] = "read"
        /\ panicked' = (op = "Get" /\ GetOp(data, lookup, key).panic)
        /\ pc' = [pc EXCEPT ![t] = "RUnlock"]
        /\ UNCHANGED <<data, lookup, hist, mu, loc>>
        /\ ConcFrame

RUnlock(t) == RUnlockAt(t, "RUnlock", "idle") /\ UNCHANGED iter /\ ReadFrame

\* Values(), Keys(), All() or EntryIter() is called and the for-range over
\* what it returned begins: the loop of ordmap.go:169 is entered.  The four
\* guarded loops (ordmap.go:169-182, 200-213, 231-244, 262-275) are one text
\* but for the arguments of yield, so one loop stands here for the four.
StartTraverse ==
    /\ ~panicked
    /\ pc[Traverser] = "idle"
    /\ iter.state = "idle"
    /\ iter' = [iter EXCEPT !.state = "running"]
    /\ pc' = [pc EXCEPT ![Traverser] = "Iter.RLock"]
    /\ UNCHANGED <<data, lookup, unsafe, initialSize, panicked, hist, prev, last,
                   mu, loc, spare, held, twin, out>>

IterFrame == UNCHANGED <<unsafe, initialSize, prev, last, spare, held, twin>>

\* om.m.RLock(), ordmap.go:170
IterRLock == RLockAt(Traverser, "Iter.RLock", "Iter.test") /\ IterFrame

\* `if idx >= len(om.data)`, ordmap.go:171
IterTest ==
    /\ ~panicked
    /\ pc[Traverser] = "Iter.test"
    /\ pc' = [pc EXCEPT ![Traverser] = IF iter.idx >= Len(data) THEN "Iter.end" ELSE "Iter.read"]
    /\ UNCHANGED <<data, lookup, panicked, hist, mu, loc, iter, out>>
    /\ IterFrame

\* `om.m.RUnlock(); return`, ordmap.go:172-173
IterEnd ==
    /\ RUnlockAt(Traverser, "Iter.end", "idle")
    /\ iter' = [iter EXCEPT !.state = "exhausted"]
    /\ IterFrame

\* `entry := om.data[idx]`, ordmap.go:176
IterRead ==
    /\ ~panicked
    /\ pc[Traverser] = "Iter.read"
    /\ IF iter.idx >= Len(data)
       THEN panicked' = TRUE /\ loc' = loc
       ELSE /\ panicked' = FALSE
            /\ loc' = [loc EXCEPT ![Traverser].entries = <<data[iter.idx + 1]>>]
    /\ pc' = [pc EXCEPT ![Traverser] = "Iter.RUnlock"]
    /\ UNCHANGED <<data, lookup, hist, mu, iter, out>>
    /\ IterFrame

\* yield called before om.m.RUnlock()
IterRUnlock_AfterYield ==
    /\ ~panicked
    /\ pc[Traverser] = "Iter.RUnlock"
    /\ pc' = [pc EXCEPT ![Traverser] = "yield"]
    /\ UNCHANGED <<data, lookup, panicked, hist, loc, out, mu, iter>>
    /\ IterFrame

\* om.m.RUnlock(), ordmap.go:177
IterRUnlock ==
    /\ RUnlockAt(Traverser, "Iter.RUnlock", "yield")
    /\ UNCHANGED iter
    /\ IterFrame

\* yield(entry.Value) is called, ordmap.go:178: the consumer has the element,
\* and what it does with it is its own
Yield ==
    /\ ~panicked
    /\ pc[Traverser] = "yield"
    /\ loc[Traverser].entries # <<>>
    /\ loc' = [loc EXCEPT ![Traverser].entries = <<>>]
    /\ pc' = [pc EXCEPT ![Traverser] = "idle"]
    /\ UNCHANGED <<data, lookup, panicked, hist, mu, iter, out>>
    /\ IterFrame

\* yield returns: false and the loop returns, or true and `idx++`,
\* ordmap.go:178-181
YieldReturn ==
    \E more \in BOOLEAN :
        /\ ~panicked
        /\ pc[Traverser] = "idle"
        /\ iter.state = "running"
        /\ IF more
           THEN /\ iter' = [iter EXCEPT !.idx = iter.idx + 1]
                /\ pc' = [pc EXCEPT ![Traverser] = "Iter.RLock"]
           ELSE /\ iter' = [iter EXCEPT !.state = "stopped"]
                /\ pc' = pc
        /\ UNCHANGED <<data, lookup, panicked, hist, mu, loc, out>>
        /\ IterFrame

\* a step of goroutine t inside a method of the map
Step(t) ==
    \/ SetLock(t) \/ SetLocked(t) \/ SetBody(t)
    \/ Unlock(t)
    \/ DeleteLock(t) \/ DeleteLocked(t) \/ DeleteBody(t)
    \/ RLock(t) \/ ReadBody(t) \/ RUnlock(t)

\* a step of the traversal's loop
IterStep == IterRLock \/ IterTest \/ IterEnd \/ IterRead \/ IterRUnlock \/ Yield

NextIter ==
    \/ \E t \in Callers : StartSet(t) \/ StartDelete(t) \/ StartRead(t) \/ Step(t)
    \/ StartTraverse
    \/ IterStep
    \/ YieldReturn

SpecIter == InitConc /\ [][NextIter]_vars

\* The scheduler runs every goroutine that can take a step, and the consumer
\* returns from yield; a lock that is free is given to one that waits for it.
FairIter ==
    /\ SpecIter
    /\ \A t \in Callers : WF_vars(Step(t))
    /\ WF_vars(IterStep)
    /\ WF_vars(YieldReturn)



----------------------------------------------------------------------------
(* The README's program: New(10), four Set calls, a range over EntryIter.  *)
(* The calls are made in any order, so that the README's order is one run  *)
(* among others.                                                           *)

ReadmeSize == 10

ReadmeEntries == <<Entry("Frodo", "The Shire"), Entry("Legolas", "Mirkwood"),
                   Entry("Aragorn", "Arnor"), Entry("Gimli", "The Blue Mountains")>>

InitReadme == New(ReadmeSize, FALSE)

ReadmeSet ==
    \E i \in 1..Len(ReadmeEntries) :
        /\ Len(hist) < Len(ReadmeEntries)
        /\ SetCall(ReadmeEntries[i].Key, ReadmeEntries[i].Value, TRUE)

NextReadme == ReadmeSet \/ EntryIter \/ TraverseStep

SpecReadme == InitReadme /\ [][NextReadme]_vars

----------------------------------------------------------------------------
(* Calls on a map whose backing array the caller can still see: through    *)
(* the slice Entries() returned, or through the slice a running            *)
(* `range om.data` of the NewUnsafe twin iterates.  One goroutine makes    *)
(* every call, so each Lock is taken at once and released on return.       *)

\* a call can be made: outside a traversal, or by the consumer of a running
\* traversal, between two of its steps
CanCall ==
    /\ ~panicked
    /\ twin.state = "running" => twin.idx > 0
    /\ loc[1].calls < MaxShared

\* the goroutine has made one call more
Called == [loc EXCEPT ![1].calls = @ + 1]

Shared(r, sp, h, th) ==
    /\ data' = r.data
    /\ lookup' = r.lookup
    /\ panicked' = r.panic
    /\ spare' = sp
    /\ held' = h
    /\ twin' = [twin EXCEPT !.h = th]
    /\ loc' = Called
    /\ UNCHANGED <<unsafe, initialSize, hist, prev, last, iter, out, mu, pc>>

\* BulkSet, ordmap.go:89-105
BulkSetShared ==
    \E entries \in SeqsUpTo(EntrySet, MaxBulk), pol \in Policies :
        /\ CanCall
        /\ Room(Len(entries))
        /\ Shared(BulkSetOp(data, lookup, entries),
                  SpareAfterSets(data, lookup, spare, entries, pol),
                  SliceAfterSets(held, data, lookup, spare, entries),
                  SliceAfterSets(twin.h, data, lookup, spare, entries))

\* Set, ordmap.go:82-84
SetShared ==
    \E key \in KeySet, val \in ValSet, pol \in Policies :
        /\ CanCall
        /\ key \in DOMAIN lookup \/ Room(1)
        /\ Shared(SetOp(data, lookup, key, val),
                  SpareAfterSets(data, lookup, spare, <<Entry(key, val)>>, pol),
                  SliceAfterSets(held, data, lookup, spare, <<Entry(key, val)>>),
                  SliceAfterSets(twin.h, data, lookup, spare, <<Entry(key, val)>>))

\* Delete, ordmap.go:119-143
DeleteShared ==
    \E key \in KeySet :
        /\ CanCall
        /\ Shared(DeleteOp(data, lookup, key),
                  SpareAfterDelete(data, lookup, spare, key),
                  SliceAfterDelete(held, data, lookup, spare, key),
                  SliceAfterDelete(twin.h, data, lookup, spare, key))

\* Entries, ordmap.go:45-51: the caller keeps what its first call returns
EntriesHeld ==
    /\ CanCall
    /\ ~held.some
    /\ held' = SliceOf(EntriesOp(data))
    /\ loc' = Called
    /\ UNCHANGED <<data, lookup, unsafe, initialSize, panicked, hist, prev, last, iter, out,
                   mu, pc, spare, twin>>

InitGuarded == \E size \in 0..MaxInit : New(size, FALSE)

NextHeld == SetShared \/ BulkSetShared \/ DeleteShared \/ EntriesHeld

SpecHeld == InitGuarded /\ [][NextHeld]_vars

----------------------------------------------------------------------------
(* New(c) and NewUnsafe(c) under one sequence of calls.  No call but a     *)
(* traversal reads om.unsafe for anything but the locks, so the fields of  *)
(* the two maps stay equal and are kept once; the two traversals are kept  *)
(* apart: iter and out for the map of New, twin for the map of NewUnsafe.  *)

\* Values, Keys, All, EntryIter: called on both maps
TraverseBoth ==
    \E view \in Views :
        /\ ~panicked
        /\ twin.state # "running"
        /\ loc[1].calls < MaxShared
        /\ iter' = [view |-> view, idx |-> 0, n |-> Len(data), state |-> "running"]
        /\ out' = <<>>
        /\ twin' = [h |-> SliceOf(data), idx |-> 0, state |-> "running", out |-> <<>>]
        /\ loc' = Called
        /\ UNCHANGED <<data, lookup, unsafe, initialSize, panicked, hist, prev, last,
                       mu, pc, spare, held>>

\* One turn of each loop.  ordmap.go:169-182 tests idx against len(om.data)
\* as it is now and reads om.data[idx]; ordmap.go:161-165 goes through the
\* slice `range` took at the start, reading each element when it comes to it.
\* The consumer answers both alike.
StepBoth ==
    \E more \in BOOLEAN :
        LET seen == Content(twin.h, data, spare)
            after == IF more THEN "running" ELSE "stopped"
        IN  /\ ~panicked
            /\ iter.state = "running" /\ twin.state = "running"
            /\ out = twin.out
            /\ IF iter.idx >= Len(data)
               THEN /\ iter' = [iter EXCEPT !.state = "exhausted"]
                    /\ out' = out
               ELSE /\ iter' = [iter EXCEPT !.idx = iter.idx + 1, !.state = after]
                    /\ out' = Append(out, Item(iter.view, iter.idx, data[iter.idx + 1]))
            /\ IF twin.idx >= Len(seen)
               THEN twin' = [twin EXCEPT !.state = "exhausted"]
               ELSE twin' = [twin EXCEPT !.idx = twin.idx + 1, !.state = after,
                                          !.out = Append(twin.out,
                                                Item(iter.view, twin.idx, seen[twin.idx + 1]))]
            /\ UNCHANGED <<data, lookup, unsafe, initialSize, panicked, hist, prev, last,
                           mu, pc, loc, spare, held>>

NextModes == SetShared \/ BulkSetShared \/ DeleteShared \/ TraverseBoth \/ StepBoth

SpecModes == InitGuarded /\ [][NextModes]_vars


----------------------------------------------------------------------------
(* The invariants of the data model, as predicates of the fields *)

\* invariant 1: lookup[k] = i exactly when data[i].Key = k
Inv1(d, l) ==
    \A k \in KeySet, i \in 0..(Len(d) - 1) :
        (k \in DOMAIN l /\ l[k] = i) <=> (d[i + 1].Key = k)

\* every key of lookup is at a position of data
Inv2(d, l) == \A k \in DOMAIN l : l[k] \in 0..(Len(d) - 1)

\* no two entries of data share a key
Inv3(d) == \A i, j \in 1..Len(d) : d[i].Key = d[j].Key => i = j

\* Set(e1), ..., Set(en) in order; a Set that panics ends the run
RECURSIVE SetAll(_, _, _)
SetAll(d, l, entries) ==
    IF entries = <<>>
    THEN [data |-> d, lookup |-> l, panic |-> FALSE]
    ELSE LET r == SetOp(d, l, Head(entries).Key, Head(entries).Value)
         IN  IF r.panic THEN r ELSE SetAll(r.data, r.lookup, Tail(entries))

\* the keys of a run of Set calls, each once, in the order of their first call
RECURSIVE FirstKeys(_)
FirstKeys(h) ==
    IF h = <<>> THEN <<>>
    ELSE LET before == FirstKeys(SubSeq(h, 1, Len(h) - 1))
             k == h[Len(h)].Key
         IN  IF \E i \in 1..Len(before) : before[i] = k THEN before ELSE Append(before, k)

\* the value of the last call of the run that set key k
LastValue(h, k) ==
    LET i == CHOOSE i \in 1..Len(h) :
                 h[i].Key = k /\ \A j \in (i + 1)..Len(h) : h[j].Key # k
    IN  h[i].Value

\* the entries a run of Set calls is to leave: first-insertion order, last value
Expected(h) ==
    LET ks == FirstKeys(h)
    IN  [i \in 1..Len(ks) |-> Entry(ks[i], LastValue(h, ks[i]))]

\* what a traversal of `view` over the entries es passes to yield, in order
Yielded(view, es) == [i \in 1..Len(es) |-> Item(view, i - 1, es[i])]

DistinctKeys(h) == \A i, j \in 1..Len(h) : h[i].Key = h[j].Key => i = j

\* the first position of the list whose key occurs earlier in the list
FirstRepeat(es) ==
    CHOOSE j \in 1..Len(es) :
        /\ \E i \in 1..(j - 1) : es[i].Key = es[j].Key
        /\ DistinctKeys(SubSeq(es, 1, j - 1))

\* the first position of key k in a list that holds it
PlaceOf(es, k) ==
    CHOOSE i \in 1..Len(es) : es[i].Key = k /\ \A j \in 1..(i - 1) : es[j].Key # k

XYX == <<Entry("x", "10"), Entry("y", "20"), Entry("x", "30")>>

\* the keys of a sequence of entries, in order
KeysOf(es) == [i \in 1..Len(es) |-> es[i].Key]

----------------------------------------------------------------------------
(* C1: in every state reached by Set, BulkSet and Delete calls on a map    *)
(* built with initial size 0, lookup[k] = i if and only if data[i].Key = k,*)
(* for every key k and position i.                                         *)
C1_IndexMatchesSequence ==
    (initialSize = 0 /\ ~panicked) => Inv1(data, lookup)

(* C2: Delete of a present key k, from a state where invariants 1-3 hold:  *)
(* afterwards Has(k) is false, Len() is one less, Index(k') is one less    *)
(* for every other key that was after k and unchanged for every key that   *)
(* was before k, and Get(k') returns what it returned before.              *)
C2_DeleteCorrect ==
    (/\ last.op = "Delete"
     /\ last.key \in DOMAIN prev.lookup
     /\ Inv1(prev.data, prev.lookup) /\ Inv2(prev.data, prev.lookup) /\ Inv3(prev.data))
    => /\ ~panicked
       /\ ~HasOp(lookup, last.key)
       /\ LenOp(data) = LenOp(prev.data) - 1
       /\ \A k \in DOMAIN prev.lookup \ {last.key} :
            /\ IndexOp(lookup, k) =
                 [idx |-> IF prev.lookup[k] > prev.lookup[last.key]
                          THEN prev.lookup[k] - 1 ELSE prev.lookup[k],
                  ok |-> TRUE]
            /\ GetOp(data, lookup, k) = GetOp(prev.data, prev.lookup, k)

(* C3: no call of Get, Has, Index, Len, Set, BulkSet or Delete panics, and *)
(* Get reports ok exactly for the keys lookup holds.                       *)
C3_NoCallFaults ==
    /\ ~panicked
    /\ last.op = "Get" => (last.ok <=> last.key \in DOMAIN prev.lookup)

(* C7, as claimed: one BulkSet call on a fresh map of initial size 0 whose  *)
(* list holds a key more than once leaves exactly one entry for that key,  *)
(* with the value of its FIRST occurrence; BulkSet((x,10),(y,20),(x,30))   *)
(* gives Len() = 2, Get(x) = 10, Get(y) = 20.                              *)
C7_FirstOccurrenceWins ==
    (last.op = "BulkSet" /\ initialSize = 0) =>
        /\ \A k \in KeySet :
             (\E i, j \in 1..Len(last.list) :
                 i < j /\ last.list[i].Key = k /\ last.list[j].Key = k)
             => /\ Cardinality({i \in 1..Len(data) : data[i].Key = k}) = 1
                /\ GetOp(data, lookup, k).val = last.list[PlaceOf(last.list, k)].Value
        /\ last.list = XYX =>
             /\ LenOp(data) = 2
             /\ GetOp(data, lookup, "x").val = "10"
             /\ GetOp(data, lookup, "y").val = "20"

(* C7, amended: one BulkSet call on a fresh map whose list holds a key     *)
(* more than once ends at the first entry whose key occurred earlier in    *)
(* the list.  That key keeps the one position its first occurrence was     *)
(* appended at and holds the value of its SECOND occurrence; the entries   *)
(* before the repeat keep their values, the keys met only after it are     *)
(* not set, and Len() has grown by the number of entries before the        *)
(* repeat.  BulkSet((x,10),(y,20),(x,30)) on New(0) gives Len() = 2,       *)
(* Get(x) = 30, Get(y) = 20.                                               *)
C7_FirstRepeatOverwrites ==
    (last.op = "BulkSet" /\ ~DistinctKeys(last.list)) =>
        LET es == last.list
            j == FirstRepeat(es)
            k == es[j].Key
            head == SubSeq(es, 1, j - 1)
        IN  /\ ~panicked
            /\ GetOp(data, lookup, k) = [val |-> es[j].Value, ok |-> TRUE, panic |-> FALSE]
            /\ IndexOp(lookup, k) = [idx |-> initialSize + PlaceOf(head, k) - 1, ok |-> TRUE]
            /\ Cardinality({i \in (initialSize + 1)..Len(data) : data[i].Key = k}) = 1
            /\ \A i \in 1..(j - 1) :
                 es[i].Key # k =>
                     GetOp(data, lookup, es[i].Key) =
                         [val |-> es[i].Value, ok |-> TRUE, panic |-> FALSE]
            /\ \A q \in KeySet :
                 HasOp(lookup, q) <=> \E i \in 1..(j - 1) : es[i].Key = q
            /\ LenOp(data) = initialSize + j - 1
            /\ (initialSize = 0 /\ es = XYX) =>
                 /\ LenOp(data) = 2
                 /\ GetOp(data, lookup, "x").val = "30"
                 /\ GetOp(data, lookup, "y").val = "20"

\* the scenario of C7 has run: BulkSet((x,10),(y,20),(x,30)) on New(0)
C7_Witness ==
    /\ last.op = "BulkSet" /\ last.list = XYX /\ initialSize = 0
    /\ data = <<Entry("x", "30"), Entry("y", "20")>>

(* C8: BulkSet(e1, ..., en) leaves the map as Set(e1), ..., Set(en) in     *)
(* order leave it, for every reachable map and every argument list.        *)
C8_BulkSetIsSetOfEach ==
    last.op = "BulkSet" =>
        LET r == SetAll(prev.data, prev.lookup, last.list)
        IN  /\ data = r.data
            /\ lookup = r.lookup
            /\ panicked = r.panic

(* C4: on a map fresh from New(c) or NewUnsafe(c), for every c >= 0, Get,  *)
(* Has and Index find no key, Len() is 0, and Entries() and every          *)
(* traversal yield nothing.                                                *)
C4_EmptyMap ==
    hist = <<>> =>
        /\ \A k \in KeySet :
             /\ ~GetOp(data, lookup, k).ok
             /\ ~HasOp(lookup, k)
             /\ ~IndexOp(lookup, k).ok
        /\ LenOp(data) = 0
        /\ EntriesOp(data) = <<>>
        /\ out = <<>>

(* C5: after New(10) and Set of Frodo, Legolas, Aragorn, Gimli in that     *)
(* order, a full traversal of EntryIter yields exactly those four pairs,   *)
(* in that order.                                                          *)
C5_ReadmeOutput ==
    (hist = ReadmeEntries /\ iter.view = "EntryIter" /\ iter.state = "exhausted")
    => out = Yielded("EntryIter", ReadmeEntries)

(* C6: after Set(k1, v1), ..., Set(kn, vn) with distinct keys on a fresh    *)
(* map of either constructor and any initial size, Get(ki) returns vi for  *)
(* every i and Len() is n.                                                 *)
C6_InsertThenRead ==
    (hist # <<>> /\ DistinctKeys(hist)) =>
        /\ \A i \in 1..Len(hist) :
             GetOp(data, lookup, hist[i].Key) =
                 [val |-> hist[i].Value, ok |-> TRUE, panic |-> FALSE]
        /\ LenOp(data) = Len(hist)

(* C9: after any run of Set calls, Entries() and a full traversal of       *)
(* Values, Keys, All or EntryIter give the entries in first-insertion      *)
(* order of their keys, each key once, with All's positions 0, 1, 2, ...   *)
C9_OrderFidelity ==
    hist # <<>> =>
        /\ EntriesOp(data) = Expected(hist)
        /\ iter.state = "exhausted" => out = Yielded(iter.view, Expected(hist))

\* no call is under way
AllReturned == \A t \in Writers : pc[t] = "idle"

(* C10: whenever every concurrent Set call on a guarded map has returned,  *)
(* Len() is the number of distinct keys set, every key set is present with *)
(* a value some goroutine set for it, and invariants 1-3 hold.             *)
C10_ConcurrentWriters ==
    (AllReturned /\ hist # <<>>) =>
        /\ ~panicked
        /\ LenOp(data) = Cardinality({hist[i].Key : i \in 1..Len(hist)})
        /\ \A i \in 1..Len(hist) :
             LET r == GetOp(data, lookup, hist[i].Key)
             IN  /\ r.ok
                 /\ \E j \in 1..Len(hist) : hist[j] = Entry(hist[i].Key, r.val)
        /\ Inv1(data, lookup) /\ Inv2(data, lookup) /\ Inv3(data)

(* C12: Set(k, v) on a key k that Has reports, in any reachable state:     *)
(* Len() is unchanged, the keys of Entries() are unchanged, every other    *)
(* entry keeps its value, Index of every key is unchanged, and afterwards  *)
(* Get(k) returns v.                                                       *)
C12_SetExistingOnlyOverwrites ==
    (last.op = "Set" /\ last.key \in DOMAIN prev.lookup) =>
        /\ ~panicked
        /\ LenOp(data) = LenOp(prev.data)
        /\ KeysOf(EntriesOp(data)) = KeysOf(EntriesOp(prev.data))
        /\ \A i \in 1..Len(prev.data) :
             prev.data[i].Key # last.key => data[i] = prev.data[i]
        /\ \A k \in KeySet : IndexOp(lookup, k) = IndexOp(prev.lookup, k)
        /\ GetOp(data, lookup, last.key) = [val |-> last.val, ok |-> TRUE, panic |-> FALSE]

(* C13: Delete(k) of a key k that Has does not report leaves Len(), the    *)
(* sequence Entries() returns, and what Get and Index return for every     *)
(* key, unchanged.                                                         *)
C13_DeleteAbsentIsNoOp ==
    (last.op = "Delete" /\ ~HasOp(prev.lookup, last.key)) =>
        /\ ~panicked
        /\ LenOp(data) = LenOp(prev.data)
        /\ EntriesOp(data) = EntriesOp(prev.data)
        /\ \A k \in KeySet :
             /\ GetOp(data, lookup, k) = GetOp(prev.data, prev.lookup, k)
             /\ IndexOp(lookup, k) = IndexOp(prev.lookup, k)

\* Delete of an absent key has been called on a map that holds entries
C13_Witness ==
    /\ last.op = "Delete" /\ ~HasOp(prev.lookup, last.key)
    /\ Len(prev.data) >= 2 /\ DOMAIN prev.lookup # {}

(* C14: in every state reached by Set, BulkSet and Delete calls on a map   *)
(* built with initial size 0, no two entries of data share a key.          *)
C14_UniqueKeys ==
    (initialSize = 0 /\ ~panicked) => Inv3(data)

(* C15: in every state reached by Set, BulkSet and Delete calls on a map   *)
(* built with initial size 0, every value of lookup is a position of data  *)
(* and the values of lookup are exactly 0 .. len(data) - 1.                *)
C15_DensePositions ==
    (initialSize = 0 /\ ~panicked) =>
        /\ Inv2(data, lookup)
        /\ {lookup[k] : k \in DOMAIN lookup} = 0..(Len(data) - 1)

(* C17: BulkSet of n entries whose keys are pairwise distinct and not      *)
(* reported by Has appends all n, in argument order, at the n positions    *)
(* after the entries already there, and records those positions; BulkSet   *)
(* of no entries leaves the map unchanged.                                 *)
C17_BulkInsertDistinct ==
    (/\ last.op = "BulkSet"
     /\ DistinctKeys(last.list)
     /\ \A i \in 1..Len(last.list) : ~HasOp(prev.lookup, last.list[i].Key))
    => /\ ~panicked
       /\ EntriesOp(data) = prev.data \o last.list
       /\ DOMAIN lookup = DOMAIN prev.lookup \cup {last.list[i].Key : i \in 1..Len(last.list)}
       /\ \A k \in DOMAIN prev.lookup : lookup[k] = prev.lookup[k]
       /\ \A i \in 1..Len(last.list) :
            /\ IndexOp(lookup, last.list[i].Key) = [idx |-> Len(prev.data) + i - 1, ok |-> TRUE]
            /\ GetOp(data, lookup, last.list[i].Key) =
                  [val |-> last.list[i].Value, ok |-> TRUE, panic |-> FALSE]
       /\ last.list = <<>> => (data = prev.data /\ lookup = prev.lookup)

\* BulkSet of two new, distinct keys has been called on a map that holds an entry
C17_Witness ==
    /\ last.op = "BulkSet" /\ Len(last.list) = 2 /\ DistinctKeys(last.list)
    /\ \A i \in 1..2 : ~HasOp(prev.lookup, last.list[i].Key)
    /\ DOMAIN prev.lookup # {}
    /\ Len(data) = Len(prev.data) + 2

\* C16: a map of New and a map of NewUnsafe, taken through the same calls by
\* one goroutine, yield the same traversal sequence and end the traversal the
\* same way, also when the consumer calls Set, BulkSet or Delete between two
\* steps of the traversal.
C16_ModesAgree ==
    (initialSize = 0 /\ twin.state # "idle") =>
        /\ twin.out = out
        /\ twin.state = iter.state

\* C20: the slice Entries() returned goes on showing what it showed when
\* Entries() returned, whatever Set, BulkSet or Delete is called afterwards.
C20_EntriesIsSnapshot ==
    held.some => Content(held, data, spare) = held.shot

\* the places of a goroutine where it is about to take the lock
Acquiring == {"Set.Lock", "Set.locking", "Delete.Lock", "Delete.locking", "RLock", "Iter.RLock"}

Holds(t) == t \in mu.r \/ mu.w = t

\* C11: a traversal of a guarded map, with another goroutine calling Set and
\* Delete meanwhile, reads om.data[idx] only with idx < len(om.data), its
\* loop changes neither data nor lookup, and under fair scheduling it ends,
\* by exhaustion or by the consumer's stop.  (Runs in which the consumer
\* itself calls the map, or in which a reading method of the other goroutine
\* has panicked, are not the claim's case.)
C11_TraversalEnds ==
    /\ [](pc[Traverser] = "Iter.read" => iter.idx < Len(data))
    /\ [][IterStep => (data' = data /\ lookup' = lookup)]_vars
    /\ (iter.state = "running") ~>
           \/ iter.state \in {"exhausted", "stopped"}
           \/ loc[Traverser].calls > 0
           \/ panicked /\ pc[Other] = "RUnlock"

\* C18: where the traversal hands an element to its consumer, while the
\* consumer runs, after the traversal has ended, and where a step is about to
\* take the read lock, the traversing goroutine holds no lock.
C18_NoGuardInCallerCode ==
    pc[Traverser] \in {"yield", "idle", "Iter.RLock"} => ~Holds(Traverser)

\* the consumer has stopped the traversal early and another goroutine has
\* the write lock
C18_Witness ==
    /\ iter.state = "stopped"
    /\ pc[Traverser] = "idle"
    /\ mu.w \notin {0, Traverser}

\* C19: under fair scheduling every call a goroutine has begun returns, a
\* call made by the consumer of a running traversal included, and no
\* goroutine that is about to take the lock holds it already.
C19_EveryCallReturns ==
    /\ \A t \in Callers : (pc[t] # "idle") ~> (pc[t] = "idle")
    /\ [](\A t \in Callers : pc[t] \in Acquiring => ~Holds(t))

====
